---------------------------- MODULE Spec2Model ----------------------------
(***************************************************************************)
(* Model of src/process_pdfs.py: the outline extractor                     *)
(* (extract_outline_from_pdf and the batch driver main) as a state         *)
(* machine, and its pure helpers (normalize_text, group_text_spans,        *)
(* is_text_part_of_title, is_valid_heading, classify_heading_level,        *)
(* extract_title_from_pdf, analyze_document_structure) as operators.       *)
(*                                                                         *)
(* Representation.  A Python str is a sequence of characters; a character  *)
(* is a one-character TLA+ string, and a code point outside ASCII is a     *)
(* named token ("ALEF" is U+0627, "LRM" is U+200E, ...).  A float is an    *)
(* exact rational: font sizes are integers (points) and a ratio threshold  *)
(* is a pair <<num, den>>, so "size / body >= t" is the cross              *)
(* multiplication size * den >= num * body.                                *)
(***************************************************************************)
EXTENDS Integers, Sequences, FiniteSets, TLC

-----------------------------------------------------------------------------
(* Characters *)

UpperSeq == <<"A","B","C","D","E","F","G","H","I","J","K","L","M",
              "N","O","P","Q","R","S","T","U","V","W","X","Y","Z">>
LowerSeq == <<"a","b","c","d","e","f","g","h","i","j","k","l","m",
              "n","o","p","q","r","s","t","u","v","w","x","y","z">>
Upper == {UpperSeq[i] : i \in DOMAIN UpperSeq}
Lower == {LowerSeq[i] : i \in DOMAIN LowerSeq}
Digit == {"0","1","2","3","4","5","6","7","8","9"}
\* str.isspace() / the regex class \s
Space == {" ", "\t", "\n"}
\* U+0627 ARABIC LETTER ALEF, U+0653 ARABIC MADDAH ABOVE (a combining mark),
\* U+0622 ARABIC LETTER ALEF WITH MADDA ABOVE = NFC(U+0627 U+0653)
Arabic == {"ALEF", "MADDAH", "ALEF_MADDA"}
\* U+05D0 HEBREW LETTER ALEF
Hebrew == {"HE_ALEF"}
\* U+200E, U+200F, U+202A .. U+202E
Directional == {"LRM", "RLM", "LRE", "RLE", "PDF", "LRO", "RLO"}
\* the regex class \w
Word == Upper \cup Lower \cup Digit \cup {"_"} \cup Arabic \cup Hebrew

ToLower(c) ==
    IF c \in Upper THEN LowerSeq[CHOOSE i \in DOMAIN UpperSeq : UpperSeq[i] = c]
    ELSE c
ToUpper(c) ==
    IF c \in Lower THEN UpperSeq[CHOOSE i \in DOMAIN LowerSeq : LowerSeq[i] = c]
    ELSE c

-----------------------------------------------------------------------------
(* str methods *)

\* str.lower()
lower(s) == [i \in DOMAIN s |-> ToLower(s[i])]

\* str.strip(): drop the leading and the trailing whitespace
strip(s) ==
    LET keep == {i \in DOMAIN s : s[i] \notin Space}
    IN  IF keep = {} THEN <<>>
        ELSE LET lo == CHOOSE i \in keep : \A j \in keep : i <= j
                 hi == CHOOSE i \in keep : \A j \in keep : j <= i
             IN  SubSeq(s, lo, hi)

\* re.sub(r'\s+', ' ', s): every maximal run of whitespace becomes one space
RECURSIVE collapse_ws(_)
collapse_ws(s) ==
    IF s = <<>> THEN <<>>
    ELSE IF Head(s) \in Space
         THEN IF Len(s) > 1 /\ s[2] \in Space
              THEN collapse_ws(Tail(s))
              ELSE <<" ">> \o collapse_ws(Tail(s))
         ELSE <<Head(s)>> \o collapse_ws(Tail(s))

\* a in b, for strings
Contains(b, a) ==
    \E i \in 0 .. (Len(b) - Len(a)) : SubSeq(b, i + 1, i + Len(a)) = a

\* str.replace(old, new), leftmost non-overlapping occurrences (old non-empty)
RECURSIVE replace(_, _, _)
replace(s, old, new) ==
    IF Len(s) < Len(old) THEN s
    ELSE IF SubSeq(s, 1, Len(old)) = old
         THEN new \o replace(SubSeq(s, Len(old) + 1, Len(s)), old, new)
         ELSE <<Head(s)>> \o replace(Tail(s), old, new)

\* len(s.split()): the number of maximal runs of non-whitespace
word_count_of(s) ==
    Cardinality({i \in DOMAIN s :
        s[i] \notin Space /\ (i = 1 \/ s[i - 1] \in Space)})

\* s.count(c)
count_of(s, cs) == Cardinality({i \in DOMAIN s : s[i] \in cs})

\* s.endswith(c)
endswith(s, c) == s # <<>> /\ s[Len(s)] = c

\* str.isupper(): at least one cased character and no lowercase one
isupper(s) ==
    /\ \E i \in DOMAIN s : s[i] \in Upper
    /\ \A i \in DOMAIN s : s[i] \notin Lower

\* str.istitle(): an uppercase character only after an uncased one, a
\* lowercase character only after a cased one, and at least one cased
istitle(s) ==
    LET cased(i) == i >= 1 /\ s[i] \in Upper \cup Lower
    IN  /\ \E i \in DOMAIN s : cased(i)
        /\ \A i \in DOMAIN s :
              /\ s[i] \in Upper => ~cased(i - 1)
              /\ s[i] \in Lower => cased(i - 1)

\* " ".join(parts)
RECURSIVE join(_)
join(parts) ==
    IF parts = <<>> THEN <<>>
    ELSE IF Len(parts) = 1 THEN parts[1]
    ELSE parts[1] \o <<" ">> \o join(Tail(parts))

-----------------------------------------------------------------------------
(* Regular expressions (module re).  A pattern is a tree; Ends(re, s, i) is  *)
(* the set of positions at which a match of re that starts at position i of *)
(* s can end, so a match exists iff the backtracking matcher finds one.     *)

Chr(cs) == [t |-> "chr", cs |-> cs]
AnyChar == [t |-> "any"]
Cat(rs) == [t |-> "cat", rs |-> rs]
Alt(rs) == [t |-> "alt", rs |-> rs]
Rep(r, lo, hi) == [t |-> "rep", r |-> r, lo |-> lo, hi |-> hi]
AtLeast(r, lo) == [t |-> "atleast", r |-> r, lo |-> lo]
Plus(r) == AtLeast(r, 1)
Star(r) == AtLeast(r, 0)
Opt(r) == Rep(r, 0, 1)
Bol == [t |-> "bol"]
Eol == [t |-> "eol"]
Wb == [t |-> "wb"]
\* a literal, and a literal under re.IGNORECASE
Lit(s) == Cat([i \in DOMAIN s |-> Chr({s[i]})])
LitI(s) == Cat([i \in DOMAIN s |-> Chr({ToLower(s[i]), ToUpper(s[i])})])

RECURSIVE Ends(_, _, _)
RECURSIVE EndsCat(_, _, _, _)
RECURSIVE EndsTimes(_, _, _, _)
RECURSIVE EndsUpTo(_, _, _, _, _)
RECURSIVE EndsClosure(_, _, _, _)

EndsFrom(re, s, I) == UNION {Ends(re, s, i) : i \in I}

EndsCat(rs, k, s, I) ==
    IF k > Len(rs) \/ I = {} THEN I
    ELSE EndsCat(rs, k + 1, s, EndsFrom(rs[k], s, I))

\* exactly n repetitions
EndsTimes(r, n, s, I) ==
    IF n = 0 \/ I = {} THEN I ELSE EndsTimes(r, n - 1, s, EndsFrom(r, s, I))

\* at most n further repetitions
EndsUpTo(r, n, s, frontier, acc) ==
    IF n = 0 \/ frontier = {} THEN acc
    ELSE LET nxt == EndsFrom(r, s, frontier) \ acc
         IN  EndsUpTo(r, n - 1, s, nxt, acc \cup nxt)

\* any number of further repetitions
EndsClosure(r, s, frontier, acc) ==
    IF frontier = {} THEN acc
    ELSE LET nxt == EndsFrom(r, s, frontier) \ acc
         IN  EndsClosure(r, s, nxt, acc \cup nxt)

Ends(re, s, i) ==
    CASE re.t = "chr" -> IF i <= Len(s) /\ s[i] \in re.cs THEN {i + 1} ELSE {}
      [] re.t = "any" -> IF i <= Len(s) /\ s[i] # "\n" THEN {i + 1} ELSE {}
      [] re.t = "cat" -> EndsCat(re.rs, 1, s, {i})
      [] re.t = "alt" -> UNION {Ends(re.rs[k], s, i) : k \in DOMAIN re.rs}
      [] re.t = "rep" ->
            LET base == EndsTimes(re.r, re.lo, s, {i})
            IN  EndsUpTo(re.r, re.hi - re.lo, s, base, base)
      [] re.t = "atleast" ->
            LET base == EndsTimes(re.r, re.lo, s, {i})
            IN  EndsClosure(re.r, s, base, base)
      [] re.t = "bol" -> IF i = 1 THEN {i} ELSE {}
      [] re.t = "eol" ->
            IF i = Len(s) + 1 \/ (i = Len(s) /\ s[i] = "\n") THEN {i} ELSE {}
      [] re.t = "wb" ->
            LET w(j) == j >= 1 /\ j <= Len(s) /\ s[j] \in Word
            IN  IF w(i - 1) # w(i) THEN {i} ELSE {}

\* re.match(pattern, s): a match that starts at the first character
re_match(re, s) == Ends(re, s, 1) # {}
\* re.search(pattern, s): a match that starts anywhere
re_search(re, s) == \E i \in 1 .. Len(s) + 1 : Ends(re, s, i) # {}

\* line 104: ^(Page|Chapter|\d+\.?$|Table|Figure|Copyright|(c)), IGNORECASE
re_title_furniture ==
    Cat(<<Bol, Alt(<<LitI(<<"P","a","g","e">>), LitI(<<"C","h","a","p","t","e","r">>),
        Cat(<<Plus(Chr(Digit)), Opt(Chr({"."})), Eol>>),
        LitI(<<"T","a","b","l","e">>), LitI(<<"F","i","g","u","r","e">>), LitI(<<"C","o","p","y","r","i","g","h","t">>), Chr({"COPYRIGHT_SIGN"})>>)>>)

\* line 218: ^(Chapter|Section|Part|Round)\s+\d+, IGNORECASE
re_major_section ==
    Cat(<<Bol, Alt(<<LitI(<<"C","h","a","p","t","e","r">>),
        LitI(<<"S","e","c","t","i","o","n">>),
        LitI(<<"P","a","r","t">>),
        LitI(<<"R","o","u","n","d">>)>>), Plus(Chr(Space)), Plus(Chr(Digit))>>)

\* line 220: ^\d+\.\s+[A-Z]
re_numbered_item ==
    Cat(<<Bol, Plus(Chr(Digit)), Chr({"."}), Plus(Chr(Space)), Chr(Upper)>>)

\* line 226: \b(sample|provided|working|git|dockerfile|solution)\b, IGNORECASE
re_list_item_words ==
    Cat(<<Wb, Alt(<<LitI(<<"s","a","m","p","l","e">>),
        LitI(<<"p","r","o","v","i","d","e","d">>),
        LitI(<<"w","o","r","k","i","n","g">>),
        LitI(<<"g","i","t">>),
        LitI(<<"d","o","c","k","e","r","f","i","l","e">>),
        LitI(<<"s","o","l","u","t","i","o","n">>)>>), Wb>>)

\* line 234: ^\d+\.\d+\s+[A-Z]
re_subsection ==
    Cat(<<Bol, Plus(Chr(Digit)), Chr({"."}), Plus(Chr(Digit)), Plus(Chr(Space)), Chr(Upper)>>)

\* line 236: ^\d+\.\d+\.\d+\s+
re_subsubsection ==
    Cat(<<Bol, Plus(Chr(Digit)), Chr({"."}), Plus(Chr(Digit)), Chr({"."}), Plus(Chr(Digit)), Plus(Chr(Space))>>)

\* line 278: ^(the|and|or|of|in|on|at|to|for|with|by)$
re_stopword ==
    Cat(<<Bol, Alt(<<Lit(<<"t","h","e">>),
        Lit(<<"a","n","d">>),
        Lit(<<"o","r">>),
        Lit(<<"o","f">>),
        Lit(<<"i","n">>),
        Lit(<<"o","n">>),
        Lit(<<"a","t">>),
        Lit(<<"t","o">>),
        Lit(<<"f","o","r">>),
        Lit(<<"w","i","t","h">>),
        Lit(<<"b","y">>)>>), Eol>>)

\* line 283: (address|phone|email|www\.|\.com|http), IGNORECASE
re_excl_283 ==
    Alt(<<LitI(<<"a","d","d","r","e","s","s">>),
        LitI(<<"p","h","o","n","e">>),
        LitI(<<"e","m","a","i","l">>),
        LitI(<<"w","w","w",".">>),
        LitI(<<".","c","o","m">>),
        LitI(<<"h","t","t","p">>)>>)

\* line 284: \d+\s+\w*\s*(street|ave|road|blvd|parkway|way|drive|lane), IGNORECASE
re_excl_284 ==
    Cat(<<Plus(Chr(Digit)), Plus(Chr(Space)), Star(Chr(Word)), Star(Chr(Space)), Alt(<<LitI(<<"s","t","r","e","e","t">>),
        LitI(<<"a","v","e">>),
        LitI(<<"r","o","a","d">>),
        LitI(<<"b","l","v","d">>),
        LitI(<<"p","a","r","k","w","a","y">>),
        LitI(<<"w","a","y">>),
        LitI(<<"d","r","i","v","e">>),
        LitI(<<"l","a","n","e">>)>>)>>)

\* line 285: ^\d{3,5}\s+[A-Z]+\s*(PARKWAY|STREET|AVE|ROAD|BLVD), IGNORECASE
re_excl_285 ==
    Cat(<<Bol, Rep(Chr(Digit), 3, 5), Plus(Chr(Space)), Plus(Chr(Upper \cup Lower)), Star(Chr(Space)), Alt(<<LitI(<<"P","A","R","K","W","A","Y">>),
        LitI(<<"S","T","R","E","E","T">>),
        LitI(<<"A","V","E">>),
        LitI(<<"R","O","A","D">>),
        LitI(<<"B","L","V","D">>)>>)>>)

\* line 286: ^[A-Z]{2}\s+\d{5}, IGNORECASE
re_excl_286 ==
    Cat(<<Bol, Rep(Chr(Upper \cup Lower), 2, 2), Plus(Chr(Space)), Rep(Chr(Digit), 5, 5)>>)

\* line 287: ^\(\d{3}\)\s*\d{3}-\d{4}, IGNORECASE
re_excl_287 ==
    Cat(<<Bol, Chr({"("}), Rep(Chr(Digit), 3, 3), Chr({")"}), Star(Chr(Space)), Rep(Chr(Digit), 3, 3), Chr({"-"}), Rep(Chr(Digit), 4, 4)>>)

\* line 288: (rsvp|fill|sign|date|name).*[-_]{3,}, IGNORECASE
re_excl_288 ==
    Cat(<<Alt(<<LitI(<<"r","s","v","p">>),
        LitI(<<"f","i","l","l">>),
        LitI(<<"s","i","g","n">>),
        LitI(<<"d","a","t","e">>),
        LitI(<<"n","a","m","e">>)>>), Star(AnyChar), AtLeast(Chr({"-", "_"}), 3)>>)

\* line 289: ^(near|on the|in the)\s+, IGNORECASE
re_excl_289 ==
    Cat(<<Bol, Alt(<<LitI(<<"n","e","a","r">>),
        LitI(<<"o","n"," ","t","h","e">>),
        LitI(<<"i","n"," ","t","h","e">>)>>), Plus(Chr(Space))>>)

\* line 290: ^\d+\s+(pages?|minutes?|hours?|days?|months?|years?)$, IGNORECASE
re_excl_290 ==
    Cat(<<Bol, Plus(Chr(Digit)), Plus(Chr(Space)), Alt(<<Cat(<<LitI(<<"p","a","g","e">>), Opt(Chr({"s", "S"}))>>), Cat(<<LitI(<<"m","i","n","u","t","e">>), Opt(Chr({"s", "S"}))>>), Cat(<<LitI(<<"h","o","u","r">>), Opt(Chr({"s", "S"}))>>), Cat(<<LitI(<<"d","a","y">>), Opt(Chr({"s", "S"}))>>), Cat(<<LitI(<<"m","o","n","t","h">>), Opt(Chr({"s", "S"}))>>), Cat(<<LitI(<<"y","e","a","r">>), Opt(Chr({"s", "S"}))>>)>>), Eol>>)

\* line 291: ^(page|figure|table|chart|diagram)\s+\d+, IGNORECASE
re_excl_291 ==
    Cat(<<Bol, Alt(<<LitI(<<"p","a","g","e">>),
        LitI(<<"f","i","g","u","r","e">>),
        LitI(<<"t","a","b","l","e">>),
        LitI(<<"c","h","a","r","t">>),
        LitI(<<"d","i","a","g","r","a","m">>)>>), Plus(Chr(Space)), Plus(Chr(Digit))>>)

\* line 292: ^\d+\s*[%$ EURO POUND YEN], IGNORECASE
re_excl_292 ==
    Cat(<<Bol, Plus(Chr(Digit)), Star(Chr(Space)), Chr({"%", "$", "EURO", "POUND", "YEN"})>>)

\* line 293: ^[A-Z]{2,}\s*\d+$, IGNORECASE
re_excl_293 ==
    Cat(<<Bol, AtLeast(Chr(Upper \cup Lower), 2), Star(Chr(Space)), Plus(Chr(Digit)), Eol>>)

\* line 294: ^(criteria|max|points|total|description)$, IGNORECASE
re_excl_294 ==
    Cat(<<Bol, Alt(<<LitI(<<"c","r","i","t","e","r","i","a">>),
        LitI(<<"m","a","x">>),
        LitI(<<"p","o","i","n","t","s">>),
        LitI(<<"t","o","t","a","l">>),
        LitI(<<"d","e","s","c","r","i","p","t","i","o","n">>)>>), Eol>>)

\* line 295: ^(constraint|requirement)$, IGNORECASE
re_excl_295 ==
    Cat(<<Bol, Alt(<<LitI(<<"c","o","n","s","t","r","a","i","n","t">>),
        LitI(<<"r","e","q","u","i","r","e","m","e","n","t">>)>>), Eol>>)

\* line 296: ^\w+\)$, IGNORECASE
re_excl_296 ==
    Cat(<<Bol, Plus(Chr(Word)), Chr({")"}), Eol>>)

\* line 297: ^(why this matters|the journey ahead|your mission)$, IGNORECASE
re_excl_297 ==
    Cat(<<Bol, Alt(<<LitI(<<"w","h","y"," ","t","h","i","s"," ","m","a","t","t","e","r","s">>),
        LitI(<<"t","h","e"," ","j","o","u","r","n","e","y"," ","a","h","e","a","d">>),
        LitI(<<"y","o","u","r"," ","m","i","s","s","i","o","n">>)>>), Eol>>)

\* line 298: ^\d+\.\s+(a|an|the)\s+, IGNORECASE
re_excl_298 ==
    Cat(<<Bol, Plus(Chr(Digit)), Chr({"."}), Plus(Chr(Space)), Alt(<<LitI(<<"a">>),
        LitI(<<"a","n">>),
        LitI(<<"t","h","e">>)>>), Plus(Chr(Space))>>)

\* line 299: ^\d+\.\s+sample\s+, IGNORECASE
re_excl_299 ==
    Cat(<<Bol, Plus(Chr(Digit)), Chr({"."}), Plus(Chr(Space)), LitI(<<"s","a","m","p","l","e">>), Plus(Chr(Space))>>)

\* line 300: hackathon\d+\.git$, IGNORECASE
re_excl_300 ==
    Cat(<<LitI(<<"h","a","c","k","a","t","h","o","n">>), Plus(Chr(Digit)), LitI(<<".","g","i","t">>), Eol>>)

\* lines 282-301: exclusion_patterns, in the order of the list
exclusion_patterns ==
    <<re_excl_283, re_excl_284, re_excl_285, re_excl_286,
      re_excl_287, re_excl_288, re_excl_289, re_excl_290,
      re_excl_291, re_excl_292, re_excl_293, re_excl_294,
      re_excl_295, re_excl_296, re_excl_297, re_excl_298,
      re_excl_299, re_excl_300>>

\* line 309: ^\d+\.
re_numbered_prefix ==
    Cat(<<Bol, Plus(Chr(Digit)), Chr({"."})>>)

\* line 318: ^\d+\.?\s+
re_numbered_section ==
    Cat(<<Bol, Plus(Chr(Digit)), Opt(Chr({"."})), Plus(Chr(Space))>>)

\* line 319: ^(Chapter|Section|Part)\s+\d+, IGNORECASE
re_chapter_pattern ==
    Cat(<<Bol, Alt(<<LitI(<<"C","h","a","p","t","e","r">>),
        LitI(<<"S","e","c","t","i","o","n">>),
        LitI(<<"P","a","r","t">>)>>), Plus(Chr(Space)), Plus(Chr(Digit))>>)

\* lines 38-44
get_semantic_keywords ==
    <<<<"i","n","t","r","o","d","u","c","t","i","o","n">>,
      <<"c","o","n","c","l","u","s","i","o","n">>,
      <<"s","u","m","m","a","r","y">>,
      <<"o","v","e","r","v","i","e","w">>,
      <<"b","a","c","k","g","r","o","u","n","d">>,
      <<"m","e","t","h","o","d","o","l","o","g","y">>,
      <<"r","e","s","u","l","t","s">>,
      <<"d","i","s","c","u","s","s","i","o","n">>,
      <<"r","e","f","e","r","e","n","c","e","s">>,
      <<"a","p","p","e","n","d","i","x">>,
      <<"c","h","a","p","t","e","r">>,
      <<"s","e","c","t","i","o","n">>,
      <<"p","a","r","t">>,
      <<"g","o","a","l","s">>,
      <<"o","b","j","e","c","t","i","v","e","s">>>>
-----------------------------------------------------------------------------
(* Text normalizer: lines 7-36 *)

\* unicodedata.normalize('NFC', s) on the modelled code points: the one
\* canonical composition among them, U+0627 U+0653 -> U+0622
RECURSIVE NFC(_)
NFC(s) ==
    IF s = <<>> THEN <<>>
    ELSE IF Len(s) > 1 /\ s[1] = "ALEF" /\ s[2] = "MADDAH"
         THEN <<"ALEF_MADDA">> \o NFC(SubSeq(s, 3, Len(s)))
         ELSE <<Head(s)>> \o NFC(Tail(s))

\* re.sub(r'[U+200E U+200F U+202A-U+202E]', '', s)
strip_directional(s) == SelectSeq(s, LAMBDA c : c \notin Directional)

normalize_text(text, language) ==
    IF text = <<>> THEN text
    ELSE LET composed == NFC(text)
             stripped == IF language \in {"arabic", "hebrew"}
                         THEN strip_directional(composed)
                         ELSE composed
         IN  collapse_ws(strip(stripped))

detect_language(text) ==
    IF text = <<>> \/ Len(strip(text)) < 10 THEN "unknown"
    ELSE LET hits == {i \in DOMAIN text : text[i] \in Arabic \cup Hebrew}
         IN  IF hits = {} THEN "latin"
             ELSE LET first == CHOOSE i \in hits : \A j \in hits : i <= j
                  IN  IF text[first] \in Arabic THEN "arabic" ELSE "hebrew"

-----------------------------------------------------------------------------
(* Span grouper: lines 131-185.  A text span is a record                    *)
(* [text, x_pos, y_pos, font_size, is_bold, bbox], bbox = <<x0,y0,x1,y1>>.  *)

line_threshold == 5
word_threshold == 20

\* sorted(text_spans, key=(y_pos, x_pos)) as the sequence of the input's
\* indices in sorted order; sorted() is stable
SortKeyLess(a, b) ==
    a.y_pos < b.y_pos \/ (a.y_pos = b.y_pos /\ a.x_pos < b.x_pos)

SortedOrder(text_spans) ==
    LET n == Len(text_spans)
        before(i, j) ==
            \/ SortKeyLess(text_spans[i], text_spans[j])
            \/ (~SortKeyLess(text_spans[j], text_spans[i]) /\ i < j)
        rank(i) == 1 + Cardinality({j \in 1 .. n : before(j, i)})
    IN  [k \in 1 .. n |-> CHOOSE i \in 1 .. n : rank(i) = k]

\* line 149 with both comparisons strict
JoinsGroupStrict(last_span, span) ==
    LET d == span.y_pos - last_span.y_pos
        y_diff == IF d < 0 THEN -d ELSE d
        x_diff == span.x_pos - last_span.bbox[3]
    IN  y_diff < line_threshold /\ x_diff < word_threshold

\* line 149: whether span joins the group that ends with last_span
JoinsGroup(last_span, span) ==
    LET d == span.y_pos - last_span.y_pos
        y_diff == IF d < 0 THEN -d ELSE d
        x_diff == span.x_pos - last_span.bbox[3]
    IN  y_diff <= line_threshold /\ x_diff <= word_threshold

\* lines 139-160: the groups, each the sequence of its members' input
\* indices; groups is the closed groups, current_group the open one
RECURSIVE GroupWalk(_, _, _, _, _)
GroupWalk(text_spans, order, k, groups, current_group) ==
    IF k > Len(order) THEN Append(groups, current_group)
    ELSE LET span == text_spans[order[k]]
             last_span == text_spans[current_group[Len(current_group)]]
         IN  IF JoinsGroup(last_span, span)
             THEN GroupWalk(text_spans, order, k + 1, groups,
                            Append(current_group, order[k]))
             ELSE GroupWalk(text_spans, order, k + 1,
                            Append(groups, current_group), <<order[k]>>)

SpanGroups(text_spans) ==
    IF text_spans = <<>> THEN <<>>
    ELSE LET order == SortedOrder(text_spans)
         IN  GroupWalk(text_spans, order, 2, <<>>, <<order[1]>>)

MaxOf(S) == CHOOSE m \in S : \A v \in S : v <= m

merge_group(spans) ==
    [text      |-> join([i \in DOMAIN spans |-> spans[i].text]),
     x_pos     |-> spans[1].x_pos,
     y_pos     |-> spans[1].y_pos,
     font_size |-> MaxOf({spans[i].font_size : i \in DOMAIN spans}),
     is_bold   |-> \E i \in DOMAIN spans : spans[i].is_bold,
     bbox      |-> spans[1].bbox]

group_text_spans(text_spans) ==
    LET groups == SpanGroups(text_spans)
    IN  [g \in DOMAIN groups |->
            merge_group([m \in DOMAIN groups[g] |-> text_spans[groups[g][m]]])]

-----------------------------------------------------------------------------
(* Title-membership test: lines 187-211 *)
\* lines 205-209 with the two coverage comparisons strict
is_text_part_of_title_strict(text, title, title_components) ==
    IF text = <<>> \/ title = <<>> THEN FALSE
    ELSE LET text_clean == collapse_ws(lower(strip(text)))
             title_clean == collapse_ws(lower(strip(title)))
         IN  \/ text_clean = title_clean
             \/ \E c \in DOMAIN title_components :
                    text_clean = lower(strip(title_components[c]))
             \/ /\ Len(text_clean) >= 8
                /\ \/ /\ Contains(title_clean, text_clean)
                      /\ 10 * Len(text_clean) > 4 * Len(title_clean)
                   \/ /\ Contains(text_clean, title_clean)
                      /\ 10 * Len(title_clean) > 6 * Len(text_clean)

is_text_part_of_title(text, title, title_components) ==
    IF text = <<>> \/ title = <<>> THEN FALSE
    ELSE LET text_clean == collapse_ws(lower(strip(text)))
             title_clean == collapse_ws(lower(strip(title)))
         IN  \/ text_clean = title_clean
             \/ \E c \in DOMAIN title_components :
                    text_clean = lower(strip(title_components[c]))
             \/ /\ Len(text_clean) >= 8
                /\ \/ /\ Contains(title_clean, text_clean)
                      \* len(text_clean) >= len(title_clean) * 0.4
                      /\ 10 * Len(text_clean) >= 4 * Len(title_clean)
                   \/ /\ Contains(text_clean, title_clean)
                      \* len(title_clean) >= len(text_clean) * 0.6
                      /\ 10 * Len(title_clean) >= 6 * Len(text_clean)

-----------------------------------------------------------------------------
(* Document statistics.  document_stats is None ([present |-> FALSE]) or a  *)
(* dict; a threshold is a rational <<num, den>> and a missing key is <<>>.  *)

NoStats ==
    [present |-> FALSE, body_size |-> 0,
     large_font_threshold |-> <<>>, medium_font_threshold |-> <<>>]

\* dict.get(key, default)
Get(value, default) == IF value = <<>> THEN default ELSE value

\* the comparison of a font ratio with a threshold turned around
RatioAtMost(font_size, body_size, t) == font_size * t[2] <= t[1] * body_size

\* font_size / body_size >= t, for body_size > 0
RatioAtLeast(font_size, body_size, t) == font_size * t[2] >= t[1] * body_size
\* font_size / body_size >= t * 0.9
RatioAtLeastNineTenths(font_size, body_size, t) ==
    10 * font_size * t[2] >= 9 * t[1] * body_size

-----------------------------------------------------------------------------
(* Heading classifier: lines 213-270 *)

\* lines 222-233: the level of a line that starts "N. Capital"
numbered_item_level(text) ==
    LET word_count == word_count_of(text)
    IN  IF \/ word_count > 8
           \/ count_of(text, {","}) > 1
           \/ endswith(text, ".")
           \/ re_search(re_list_item_words, text)
        THEN "H3"
        ELSE IF word_count <= 5 /\ ~endswith(text, ".") THEN "H1" ELSE "H2"

\* lines 240-252
adaptive_level(font_size, is_bold, body_size, document_stats) ==
    LET large_font_threshold ==
            Get(document_stats.large_font_threshold, <<15, 10>>)
        medium_font_threshold ==
            Get(document_stats.medium_font_threshold, <<12, 10>>)
    IN  IF \/ RatioAtLeast(font_size, body_size, large_font_threshold)
           \/ /\ RatioAtLeastNineTenths(font_size, body_size, large_font_threshold)
              /\ is_bold
        THEN "H1"
        ELSE IF \/ RatioAtLeast(font_size, body_size, medium_font_threshold)
                \/ /\ RatioAtLeastNineTenths(font_size, body_size,
                                             medium_font_threshold)
                   /\ is_bold
             THEN "H2"
             ELSE "H3"

\* lines 255-262
standard_level(font_size, is_bold, body_size) ==
    IF \/ RatioAtLeast(font_size, body_size, <<15, 10>>)
       \/ (RatioAtLeast(font_size, body_size, <<13, 10>>) /\ is_bold)
    THEN "H1"
    ELSE IF \/ RatioAtLeast(font_size, body_size, <<12, 10>>)
            \/ (RatioAtLeast(font_size, body_size, <<11, 10>>) /\ is_bold)
         THEN "H2"
         ELSE "H3"

\* lines 265-270
fallback_level(font_size, is_bold) ==
    IF is_bold /\ font_size >= 14 THEN "H1"
    ELSE IF is_bold \/ font_size >= 12 THEN "H2"
    ELSE "H3"

\* lines 240-270: the font-based branches
font_level(font_size, is_bold, body_size, document_stats) ==
    IF body_size > 0 /\ document_stats.present
    THEN adaptive_level(font_size, is_bold, body_size, document_stats)
    ELSE IF body_size > 0
         THEN standard_level(font_size, is_bold, body_size)
         ELSE fallback_level(font_size, is_bold)

\* lines 218-237: which lexical branch is taken, "none" when none is
lexical_branch(text) ==
    IF re_match(re_major_section, text) THEN "major"
    ELSE IF re_match(re_numbered_item, text) THEN "numbered"
    ELSE IF re_match(re_subsection, text) THEN "subsection"
    ELSE IF re_match(re_subsubsection, text) THEN "subsubsection"
    ELSE "none"

\* the classifier consulting the font before the lexical patterns
classify_font_first(text, font_size, is_bold, body_size, document_stats) ==
    LET branch == lexical_branch(text)
        by_font == font_level(font_size, is_bold, body_size, document_stats)
    IN  IF by_font = "H1" THEN "H1"
        ELSE CASE branch = "major" -> "H1"
               [] branch = "numbered" -> numbered_item_level(text)
               [] branch = "subsection" -> "H2"
               [] branch = "subsubsection" -> "H3"
               [] OTHER -> by_font

classify_heading_level(text, font_size, is_bold, body_size, document_stats) ==
    LET branch == lexical_branch(text)
    IN  CASE branch = "major" -> "H1"
          [] branch = "numbered" -> numbered_item_level(text)
          [] branch = "subsection" -> "H2"
          [] branch = "subsubsection" -> "H3"
          [] OTHER -> font_level(font_size, is_bold, body_size, document_stats)

-----------------------------------------------------------------------------
(* Heading validator: lines 272-361 *)

\* lines 303-305
matches_exclusion(text) ==
    \E p \in DOMAIN exclusion_patterns : re_search(exclusion_patterns[p], text)

\* the early returns without the loop over exclusion_patterns
rejected_without_exclusions(text) ==
    \/ text = <<>> \/ Len(text) < 3 \/ Len(text) > 200
    \/ re_match(re_stopword, lower(text))
    \/ (word_count_of(text) > 15 /\ ~re_match(re_numbered_prefix, text))
    \/ 10 * count_of(text, {".", ",", ";", ":", "!", "?"}) > Len(text)

\* lines 274-315: the early returns; TRUE when one of them rejects the text
rejected_by_filter(text) ==
    \/ text = <<>> \/ Len(text) < 3 \/ Len(text) > 200
    \/ re_match(re_stopword, lower(text))
    \/ matches_exclusion(text)
    \/ (word_count_of(text) > 15 /\ ~re_match(re_numbered_prefix, text))
    \* punct_ratio > 0.1
    \/ 10 * count_of(text, {".", ",", ";", ":", "!", "?"}) > Len(text)

B2I(b) == IF b THEN 1 ELSE 0

\* lines 318-327, 343-350
content_score(text, language) ==
    LET word_count == word_count_of(text)
        has_numbered_section == re_match(re_numbered_section, text)
        has_chapter_pattern == re_match(re_chapter_pattern, text)
        text_normalized == lower(normalize_text(text, language))
        has_semantic_keywords ==
            \E k \in DOMAIN get_semantic_keywords :
                Contains(text_normalized, get_semantic_keywords[k])
        is_title_case == istitle(text) /\ word_count <= 8
        is_all_caps == isupper(text) /\ Len(text) > 3 /\ Len(text) < 50
        starts_with_capital == text # <<>> /\ text[1] \in Upper
    IN  B2I(has_chapter_pattern) * 6 + B2I(has_numbered_section) * 4
        + B2I(has_semantic_keywords) * 3 + B2I(is_title_case) * 2
        + B2I(is_all_caps) * 2 + B2I(starts_with_capital) * 1

\* lines 330-340, 352-356
font_score(font_size, is_bold, body_size, document_stats) ==
    LET \* font_ratio = font_size / body_size if body_size > 0 else 1
        num == IF body_size > 0 THEN font_size ELSE 1
        den == IF body_size > 0 THEN body_size ELSE 1
        large_threshold ==
            IF document_stats.present
            THEN Get(document_stats.large_font_threshold, <<13, 10>>)
            ELSE <<13, 10>>
        medium_threshold ==
            IF document_stats.present
            THEN Get(document_stats.medium_font_threshold, <<12, 10>>)
            ELSE <<12, 10>>
        is_large_font == RatioAtLeast(num, den, large_threshold)
        is_notable_font == RatioAtLeast(num, den, medium_threshold) /\ is_bold
    IN  B2I(is_large_font) * 4 + B2I(is_notable_font) * 3 + B2I(is_bold) * 2

\* line 359
required_score(text) ==
    IF word_count_of(text) <= 5 THEN 5
    ELSE IF word_count_of(text) <= 10 THEN 6 ELSE 7

is_valid_heading(text, font_size, is_bold, body_size, language, document_stats) ==
    IF rejected_by_filter(text) THEN FALSE
    ELSE content_score(text, language)
         + font_score(font_size, is_bold, body_size, document_stats)
         >= required_score(text)

-----------------------------------------------------------------------------
(* The extraction collaborator (fitz).  A document is a record              *)
(*   [opens, meta_ok, meta_title, page_count, pages, rest_page]             *)
(* opens: fitz.open succeeds; meta_ok: doc.metadata.get('title', '')        *)
(* yields a str (not None); pages: the first pages, every later page up to  *)
(* page_count being rest_page.  A page is                                   *)
(*   [load_ok, dict_ok, text_ok, height, blocks]                            *)
(* load_ok: doc.load_page succeeds; dict_ok: page.get_text("dict")          *)
(* succeeds; text_ok: page.get_text() succeeds.  A block is [type, lines],  *)
(* a line a sequence of spans, a span [text, bbox, size, font].  Pages are  *)
(* numbered from 1 here (page_num + 1 of the source).                       *)

EmptyPage ==
    [load_ok |-> TRUE, dict_ok |-> TRUE, text_ok |-> TRUE, height |-> 800,
     blocks |-> <<>>]

PageOf(doc, p) == IF p <= Len(doc.pages) THEN doc.pages[p] ELSE doc.rest_page

Min(a, b) == IF a <= b THEN a ELSE b

RECURSIVE Flatten(_)
Flatten(seqs) ==
    IF seqs = <<>> THEN <<>> ELSE Head(seqs) \o Flatten(Tail(seqs))

\* lines 46-55
extract_text_blocks(page) ==
    IF /\ page.dict_ok
       /\ \E b \in DOMAIN page.blocks :
              page.blocks[b].type = 0 /\ page.blocks[b].lines # <<>>
    THEN page.blocks
    ELSE <<>>

\* for block in blocks: if type == 0: for line in lines: the lines in order
BlockLines(blocks) ==
    Flatten([b \in DOMAIN blocks |->
        IF blocks[b].type = 0 THEN blocks[b].lines ELSE <<>>])

\* ... for span in line["spans"]: the spans in order
BlockSpans(blocks) == Flatten(BlockLines(blocks))

\* "bold" in str(span.get("font", "")).lower()
FontIsBold(font) == Contains(lower(font), <<"b","o","l","d">>)

\* page.get_text(): the page's plain text, one line of text per line
PlainText(page) ==
    LET lines == BlockLines(page.blocks)
    IN  Flatten([l \in DOMAIN lines |->
            Flatten([s \in DOMAIN lines[l] |-> lines[l][s].text]) \o <<"\n">>])

\* the pages 1 .. n are loaded in order: the first whose load_page raises,
\* 0 when none does
FirstLoadFailure(doc, n) ==
    LET bad == {p \in 1 .. n : ~PageOf(doc, p).load_ok}
    IN  IF bad = {} THEN 0 ELSE CHOOSE p \in bad : \A q \in bad : p <= q

\* the number of load_page calls made on the way
LoadCalls(doc, n) ==
    IF FirstLoadFailure(doc, n) = 0 THEN n ELSE FirstLoadFailure(doc, n)

-----------------------------------------------------------------------------
(* Document structure analyzer: lines 363-420 *)

\* sorted(xs), ascending
SortedInts(xs) ==
    LET n == Len(xs)
        before(i, j) == xs[i] < xs[j] \/ (xs[i] = xs[j] /\ i < j)
        rank(i) == 1 + Cardinality({j \in 1 .. n : before(j, i)})
    IN  [k \in 1 .. n |-> xs[CHOOSE i \in 1 .. n : rank(i) = k]]

\* max(1.4, size / body_size * 0.9) and max(1.2, ...), as rationals
AdaptiveThreshold(floor, size, body_size) ==
    IF 9 * size * floor[2] > floor[1] * 10 * body_size
    THEN <<9 * size, 10 * body_size>>
    ELSE floor

DefaultStats ==
    [present |-> TRUE, body_size |-> 12,
     large_font_threshold |-> <<15, 10>>, medium_font_threshold |-> <<12, 10>>]

\* [raised, stats, loads]: raised when an exception leaves the function,
\* loads the number of load_page calls it made
analyze_document_structure(doc) ==
    LET max_pages == Min(5, doc.page_count)
        spans == Flatten([p \in 1 .. max_pages |->
                    BlockSpans(extract_text_blocks(PageOf(doc, p)))])
        all_font_sizes == [s \in DOMAIN spans |-> spans[s].size]
        body == SelectSeq(spans, LAMBDA s : Len(strip(s.text)) > 10)
        font_sizes == SortedInts([s \in DOMAIN body |-> body[s].size])
        body_size == font_sizes[(Len(font_sizes) \div 2) + 1]
        unique_sizes == {all_font_sizes[s] : s \in DOMAIN all_font_sizes}
        largest_size == MaxOf(unique_sizes)
        second_largest == MaxOf(unique_sizes \ {largest_size})
    IN  IF FirstLoadFailure(doc, max_pages) # 0
        THEN [raised |-> TRUE, stats |-> NoStats,
              loads |-> LoadCalls(doc, max_pages)]
        ELSE IF body = <<>>
        THEN [raised |-> FALSE, stats |-> DefaultStats, loads |-> max_pages]
        ELSE IF Cardinality(unique_sizes) >= 3
        THEN IF body_size = 0
             THEN [raised |-> TRUE, stats |-> NoStats, loads |-> max_pages]
             ELSE [raised |-> FALSE,
                   stats |->
                     [present |-> TRUE, body_size |-> body_size,
                      large_font_threshold |->
                          AdaptiveThreshold(<<14, 10>>, largest_size, body_size),
                      medium_font_threshold |->
                          AdaptiveThreshold(<<12, 10>>, second_largest, body_size)],
                   loads |-> max_pages]
        ELSE [raised |-> FALSE,
              stats |-> [present |-> TRUE, body_size |-> body_size,
                         large_font_threshold |-> <<15, 10>>,
                         medium_font_threshold |-> <<12, 10>>],
              loads |-> max_pages]

-----------------------------------------------------------------------------
(* Title extractor: lines 57-129 *)

\* lines 73-88: the page's spans of at least 3 characters, as text spans
TitleSpans(blocks) ==
    LET spans == BlockSpans(blocks)
        kept == SelectSeq(spans, LAMBDA s : Len(strip(s.text)) >= 3)
    IN  [s \in DOMAIN kept |->
            [text      |-> strip(kept[s].text),
             x_pos     |-> kept[s].bbox[1],
             y_pos     |-> kept[s].bbox[2],
             font_size |-> kept[s].size,
             is_bold   |-> FontIsBold(kept[s].font),
             bbox      |-> kept[s].bbox]]

\* lines 102-111
IsTitleCandidate(group, page_height, max_font) ==
    \* group['y_pos'] < page_height * 0.4
    /\ 10 * group.y_pos < 4 * page_height
    \* group['font_size'] >= max_font * 0.9
    /\ 10 * group.font_size >= 9 * max_font
    /\ ~re_match(re_title_furniture, group.text)
    /\ word_count_of(group.text) >= 2
    /\ Len(group.text) >= 8
    /\ LET text_lower == lower(group.text)
       IN  \/ Contains(text_lower, <<"c","h","a","l","l","e","n","g","e">>)
           \/ Contains(text_lower, <<"c","o","n","n","e","c","t","i","n","g">>)
           \/ Contains(text_lower, <<"d","o","t","s">>)
           \/ group.font_size = max_font

\* line 116 and 119: the first candidate in (-font_size, y_pos) order
BestCandidate(title_candidates) ==
    LET n == Len(title_candidates)
        less(a, b) ==
            \/ a.font_size > b.font_size
            \/ (a.font_size = b.font_size /\ a.y_pos < b.y_pos)
    IN  title_candidates[CHOOSE i \in 1 .. n :
            \A j \in 1 .. n :
                \/ less(title_candidates[i], title_candidates[j])
                \/ (~less(title_candidates[j], title_candidates[i]) /\ i <= j)]

\* lines 120-125
CleanTitle(text) ==
    LET quote == <<"\"">>
        title == collapse_ws(strip(text))
        unquoted == replace(replace(replace(title, quote, <<>>), quote, <<>>),
                            quote, <<>>)
    IN  replace(unquoted,
                <<"W","e","l","c","o","m","e"," ","t","o"," ","t","h","e"," ">>,
                <<>>)

\* lines 68-129: the pages from page_num on; loads counts the load_page calls
RECURSIVE TitleFromPages(_, _, _)
TitleFromPages(doc, page_num, loads) ==
    IF page_num > Min(3, doc.page_count)
    THEN [raised |-> FALSE, title |-> <<>>, components |-> <<>>, loads |-> loads]
    ELSE LET page == PageOf(doc, page_num)
             text_spans == TitleSpans(extract_text_blocks(page))
             grouped_spans == group_text_spans(text_spans)
             max_font == MaxOf({text_spans[s].font_size : s \in DOMAIN text_spans})
             title_candidates ==
                 SelectSeq(grouped_spans,
                           LAMBDA g : IsTitleCandidate(g, page.height, max_font))
             title == CleanTitle(BestCandidate(title_candidates).text)
         IN  IF ~page.load_ok
             THEN [raised |-> TRUE, title |-> <<>>, components |-> <<>>,
                   loads |-> loads + 1]
             ELSE IF text_spans = <<>> \/ title_candidates = <<>>
             THEN TitleFromPages(doc, page_num + 1, loads + 1)
             ELSE [raised |-> FALSE, title |-> title, components |-> <<title>>,
                   loads |-> loads + 1]

\* lines 59-65 without the strip() of the metadata title
extract_title_unstripped(doc) ==
    IF doc.page_count = 0
    THEN [raised |-> FALSE, title |-> <<>>, components |-> <<>>, loads |-> 0]
    ELSE IF ~doc.meta_ok
    THEN [raised |-> TRUE, title |-> <<>>, components |-> <<>>, loads |-> 0]
    ELSE LET metadata_title == doc.meta_title
         IN  IF metadata_title # <<>> /\ Len(metadata_title) > 3
             THEN [raised |-> FALSE, title |-> metadata_title,
                   components |-> <<metadata_title>>, loads |-> 0]
             ELSE TitleFromPages(doc, 1, 0)

\* [raised, title, components, loads]
extract_title_from_pdf(doc) ==
    IF doc.page_count = 0
    THEN [raised |-> FALSE, title |-> <<>>, components |-> <<>>, loads |-> 0]
    ELSE IF ~doc.meta_ok
    THEN [raised |-> TRUE, title |-> <<>>, components |-> <<>>, loads |-> 0]
    ELSE LET metadata_title == strip(doc.meta_title)
         IN  IF metadata_title # <<>> /\ Len(metadata_title) > 3
             THEN [raised |-> FALSE, title |-> metadata_title,
                   components |-> <<metadata_title>>, loads |-> 0]
             ELSE TitleFromPages(doc, 1, 0)

-----------------------------------------------------------------------------
(* Outline builder: lines 424-493 *)

MaxPages == 50
SampleChars == 1000

\* lines 436-442: [raised, language, loads]
SampleLanguage(doc) ==
    LET n == Min(3, doc.page_count)
        bad == {p \in 1 .. n :
                   ~PageOf(doc, p).load_ok \/ ~PageOf(doc, p).text_ok}
        first_bad == CHOOSE p \in bad : \A q \in bad : p <= q
        sample_text ==
            Flatten([p \in 1 .. n |->
                LET page_text == PlainText(PageOf(doc, p))
                IN  SubSeq(page_text, 1, Min(SampleChars, Len(page_text)))])
    IN  IF bad # {}
        THEN [raised |-> TRUE, language |-> "unknown", loads |-> first_bad]
        ELSE [raised |-> FALSE, language |-> detect_language(sample_text),
              loads |-> n]

\* lines 454-469: [has_text, text, max_size, is_bold] of one line
LineText(line) ==
    LET parts == SelectSeq(line, LAMBDA s : strip(s.text) # <<>>)
    IN  [has_text |-> parts # <<>>,
         text     |-> strip(join([s \in DOMAIN parts |-> parts[s].text])),
         max_size |-> MaxOf({0} \cup {parts[s].size : s \in DOMAIN parts}),
         is_bold  |-> \E s \in DOMAIN parts : FontIsBold(parts[s].font)]

\* line 480 without the + 1: the entry carries the loop's 0-indexed page_num
LineEntriesZeroIndexed(line, page_num, document_title, title_components, body_size, document_language, doc_structure) ==
    LET l == LineText(line)
    IN  IF ~l.has_text THEN <<>>
        ELSE IF is_text_part_of_title(l.text, document_title, title_components)
        THEN <<>>
        ELSE IF is_valid_heading(l.text, l.max_size, l.is_bold, body_size,
                                 document_language, doc_structure)
        THEN <<[level |-> classify_heading_level(l.text, l.max_size, l.is_bold,
                                                 body_size, doc_structure),
                text  |-> normalize_text(l.text, document_language),
                page  |-> page_num - 1]>>
        ELSE <<>>

\* lines 471-481: the entries one line appends to the outline (none or one)
LineEntries(line, page_num, document_title, title_components, body_size, document_language, doc_structure) ==
    LET l == LineText(line)
    IN  IF ~l.has_text THEN <<>>
        ELSE IF is_text_part_of_title(l.text, document_title, title_components)
        THEN <<>>
        ELSE IF is_valid_heading(l.text, l.max_size, l.is_bold, body_size,
                                 document_language, doc_structure)
        THEN <<[level |-> classify_heading_level(l.text, l.max_size, l.is_bold,
                                                 body_size, doc_structure),
                text  |-> normalize_text(l.text, document_language),
                page  |-> page_num]>>
        ELSE <<>>

\* lines 449-481: the entries one loaded page appends, in line order
PageEntries(page, page_num, document_title, title_components, body_size, document_language, doc_structure) ==
    LET lines == BlockLines(extract_text_blocks(page))
    IN  Flatten([l \in DOMAIN lines |->
            LineEntries(lines[l], page_num, document_title, title_components,
                        body_size, document_language, doc_structure)])

\* lines 486-489 and line 493
ReturnValue(title, outline) == [title |-> title, outline |-> outline]

\* the handler of lines 491-493 returning what had been collected so far
ExceptValueKeepsPartial(title, outline) == [title |-> title, outline |-> outline]

ExceptValue(title, outline) == [title |-> <<>>, outline |-> <<>>]

-----------------------------------------------------------------------------
(* The documents the batch is drawn from: texts, pages, documents *)

\* 'The Connecting'
T_the_connecting ==
    <<"T","h","e"," ","C","o","n","n","e","c","t","i","n","g">>

\* 'Dots Challenge'
T_dots_challenge ==
    <<"D","o","t","s"," ","C","h","a","l","l","e","n","g","e">>

\* 'The Connecting Dots Challenge'
T_title ==
    <<"T","h","e"," ","C","o","n","n","e","c","t","i","n","g"," ","D","o","t","s"," ","C","h","a","l","l","e","n","g","e">>

\* 'Connecting the Dots: Round 2'
T_round ==
    <<"C","o","n","n","e","c","t","i","n","g"," ","t","h","e"," ","D","o","t","s",":"," ","R","o","u","n","d"," ","2">>

\* 'Chapter 1 Introduction'
T_chapter ==
    <<"C","h","a","p","t","e","r"," ","1"," ","I","n","t","r","o","d","u","c","t","i","o","n">>

\* '2.1 Background'
T_sub ==
    <<"2",".","1"," ","B","a","c","k","g","r","o","u","n","d">>

\* '2.1.3 Setup'
T_subsub ==
    <<"2",".","1",".","3"," ","S","e","t","u","p">>

\* 'Page 3'
T_page ==
    <<"P","a","g","e"," ","3">>

\* 'this is plain body text'
T_body ==
    <<"t","h","i","s"," ","i","s"," ","p","l","a","i","n"," ","b","o","d","y"," ","t","e","x","t">>

\* 'Annual Report 2023'
T_annual ==
    <<"A","n","n","u","a","l"," ","R","e","p","o","r","t"," ","2","0","2","3">>

\* ' Annual Report 2023\n'
T_annual_padded ==
    <<" ","A","n","n","u","a","l"," ","R","e","p","o","r","t"," ","2","0","2","3","\n">>

\* 'abc '
T_abc_padded ==
    <<"a","b","c"," ">>

\* '1. Overview'
T_overview ==
    <<"1","."," ","O","v","e","r","v","i","e","w">>

\* '  '
T_blank ==
    <<" "," ">>

\* 'Summary \u0627\u200e\u0653 RESULTS'
T_arabic_heading ==
    <<"S","u","m","m","a","r","y"," ","ALEF","LRM","MADDAH"," ","R","E","S","U","L","T","S">>

\* '\u0622\u0627\u0627 \u0627\u0627\u0627 \u0627\u0627\u0627\u0627'
T_arabic_body ==
    <<"ALEF_MADDA","ALEF","ALEF"," ","ALEF","ALEF","ALEF"," ","ALEF","ALEF","ALEF","ALEF">>

HelveticaFont == <<"H","e","l","v","e","t","i","c","a">>
HelveticaBoldFont ==
    <<"H","e","l","v","e","t","i","c","a","-","B","o","l","d">>

\* a span of text at (x, y), w wide, set in font at size
Sp(text, x, y, w, size, font) ==
    [text |-> text, bbox |-> <<x, y, x + w, y + size>>, size |-> size,
     font |-> font]
TextBlock(lines) == [type |-> 0, lines |-> lines]
ImageBlock == [type |-> 1, lines |-> <<>>]

CoverBlocks ==
    <<ImageBlock,
      TextBlock(<<
        <<Sp(T_the_connecting, 50, 100, 200, 24, HelveticaFont),
          Sp(T_dots_challenge, 260, 100, 200, 24, HelveticaFont)>>,
        <<Sp(T_body, 50, 400, 300, 12, HelveticaFont)>>,
        <<Sp(T_chapter, 50, 450, 300, 16, HelveticaBoldFont)>>,
        <<Sp(T_title, 50, 500, 300, 12, HelveticaFont)>>>>)>>

InnerBlocks ==
    <<TextBlock(<<
        <<Sp(T_sub, 50, 100, 200, 14, HelveticaBoldFont)>>,
        <<Sp(T_round, 50, 150, 300, 14, HelveticaBoldFont)>>,
        <<Sp(T_page, 50, 200, 100, 14, HelveticaBoldFont)>>,
        <<Sp(T_blank, 50, 220, 10, 12, HelveticaFont)>>,
        <<Sp(T_body, 50, 250, 300, 12, HelveticaFont),
          Sp(T_body, 50, 264, 300, 12, HelveticaFont)>>>>),
      TextBlock(<<
        <<Sp(T_subsub, 50, 300, 200, 12, HelveticaFont)>>,
        <<Sp(T_overview, 50, 350, 100, 18, HelveticaFont)>>>>)>>

RestBlocks ==
    <<TextBlock(<<
        <<Sp(T_chapter, 50, 100, 300, 16, HelveticaBoldFont)>>>>)>>

ArabicBlocks ==
    <<TextBlock(<<
        <<Sp(T_arabic_body, 50, 300, 300, 12, HelveticaFont)>>,
        <<Sp(T_arabic_heading, 50, 400, 300, 20, HelveticaBoldFont)>>>>)>>

CoverPage ==
    [load_ok |-> TRUE, dict_ok |-> TRUE, text_ok |-> TRUE, height |-> 800,
     blocks |-> CoverBlocks]

InnerPage ==
    [load_ok |-> TRUE, dict_ok |-> TRUE, text_ok |-> TRUE, height |-> 800,
     blocks |-> InnerBlocks]

RestPage ==
    [load_ok |-> TRUE, dict_ok |-> TRUE, text_ok |-> TRUE, height |-> 800,
     blocks |-> RestBlocks]

ArabicPage ==
    [load_ok |-> TRUE, dict_ok |-> TRUE, text_ok |-> TRUE, height |-> 800,
     blocks |-> ArabicBlocks]

InnerPageLoadFails ==
    [load_ok |-> FALSE, dict_ok |-> TRUE, text_ok |-> TRUE, height |-> 800,
     blocks |-> InnerBlocks]

InnerPageDictFails ==
    [load_ok |-> TRUE, dict_ok |-> FALSE, text_ok |-> TRUE, height |-> 800,
     blocks |-> InnerBlocks]

CoverPageTextFails ==
    [load_ok |-> TRUE, dict_ok |-> TRUE, text_ok |-> FALSE, height |-> 800,
     blocks |-> CoverBlocks]

CoverPageLoadFails ==
    [load_ok |-> FALSE, dict_ok |-> TRUE, text_ok |-> TRUE, height |-> 800,
     blocks |-> CoverBlocks]

CoverPageDictFails ==
    [load_ok |-> TRUE, dict_ok |-> FALSE, text_ok |-> TRUE, height |-> 800,
     blocks |-> CoverBlocks]

GoodDoc ==
    [opens |-> TRUE, meta_ok |-> TRUE, meta_title |-> <<>>, page_count |-> 2,
     pages |-> <<CoverPage, InnerPage>>, rest_page |-> EmptyPage]

CorruptDoc ==
    [opens |-> FALSE, meta_ok |-> TRUE, meta_title |-> <<>>, page_count |-> 0,
     pages |-> <<>>, rest_page |-> EmptyPage]

LoadFailDoc ==
    [opens |-> TRUE, meta_ok |-> TRUE, meta_title |-> <<>>, page_count |-> 3,
     pages |-> <<CoverPage, InnerPageLoadFails, InnerPage>>, rest_page |-> EmptyPage]

DictFailDoc ==
    [opens |-> TRUE, meta_ok |-> TRUE, meta_title |-> <<>>, page_count |-> 3,
     pages |-> <<CoverPage, InnerPageDictFails, InnerPage>>, rest_page |-> EmptyPage]

TextFailDoc ==
    [opens |-> TRUE, meta_ok |-> TRUE, meta_title |-> <<>>, page_count |-> 2,
     pages |-> <<CoverPageTextFails, InnerPage>>, rest_page |-> EmptyPage]

MetaDoc ==
    [opens |-> TRUE, meta_ok |-> TRUE, meta_title |-> T_annual, page_count |-> 1,
     pages |-> <<InnerPage>>, rest_page |-> EmptyPage]

MetaNoneDoc ==
    [opens |-> TRUE, meta_ok |-> FALSE, meta_title |-> <<>>, page_count |-> 1,
     pages |-> <<InnerPage>>, rest_page |-> EmptyPage]

EmptyMetaDoc ==
    [opens |-> TRUE, meta_ok |-> TRUE, meta_title |-> T_annual, page_count |-> 0,
     pages |-> <<>>, rest_page |-> EmptyPage]

LongDoc ==
    [opens |-> TRUE, meta_ok |-> TRUE, meta_title |-> <<>>, page_count |-> 51,
     pages |-> <<CoverPage>>, rest_page |-> RestPage]

ArabicDoc ==
    [opens |-> TRUE, meta_ok |-> TRUE, meta_title |-> T_abc_padded, page_count |-> 1,
     pages |-> <<ArabicPage>>, rest_page |-> EmptyPage]

\* the files of the input directory are drawn from these
Docs ==
    <<GoodDoc, CorruptDoc, LoadFailDoc, DictFailDoc,
      TextFailDoc, MetaDoc, MetaNoneDoc, EmptyMetaDoc,
      LongDoc, ArabicDoc>>

-----------------------------------------------------------------------------
(* The batch driver main (lines 495-529) around extract_outline_from_pdf    *)
(* (lines 424-493), one action per step.                                    *)

MaxFiles == 2

VARIABLES
    input_dir_exists,   \* whether sample_dataset/pdfs exists
    pdf_files,          \* list(input_dir.glob("*.pdf")), as indices into Docs
    pc,                 \* where main is
    file_idx,           \* the position of pdf_file in pdf_files
    open_handles,       \* the files whose fitz handle is open and not closed
    document_title, title_components, doc_structure, document_language,
    outline, page_num,  \* the locals of extract_outline_from_pdf
    result,             \* what extract_outline_from_pdf returned
    outputs,            \* per file, the records written to its output file
    status,             \* what main returned, -1 before it returns
    page_loads,         \* the load_page calls made on the current document
    raised_in,          \* the files whose processing reached the except clause
    write_failed,       \* the files whose output file could not be written
    call, ret           \* the arguments and the result of a helper applied alone

vars ==
    <<input_dir_exists, pdf_files, pc, file_idx, open_handles, document_title,
      title_components, doc_structure, document_language, outline, page_num,
      result, outputs, status, page_loads, raised_in, write_failed, call, ret>>

locals ==
    <<document_title, title_components, doc_structure, document_language,
      outline, page_num>>
helper_vars == <<call, ret>>
main_vars ==
    <<input_dir_exists, pdf_files, pc, file_idx, open_handles, locals, result,
      outputs, status, page_loads, raised_in, write_failed>>

NoCall == [fn |-> "none"]

\* line 505: the listing of input_dir, at most MaxFiles distinct files
Batches ==
    {b \in UNION {[1 .. n -> DOMAIN Docs] : n \in 0 .. MaxFiles} :
        \A i, j \in DOMAIN b : i # j => b[i] # b[j]}

MainIdle ==
    /\ input_dir_exists = FALSE
    /\ pdf_files = <<>>
    /\ pc = "idle"
    /\ file_idx = 0
    /\ open_handles = {}
    /\ document_title = <<>>
    /\ title_components = <<>>
    /\ doc_structure = NoStats
    /\ document_language = "unknown"
    /\ outline = <<>>
    /\ page_num = 0
    /\ result = ReturnValue(<<>>, <<>>)
    /\ outputs = <<>>
    /\ status = -1
    /\ page_loads = 0
    /\ raised_in = {}
    /\ write_failed = {}

Init ==
    /\ input_dir_exists \in BOOLEAN
    /\ pdf_files \in (IF input_dir_exists THEN Batches ELSE {<<>>})
    /\ pc = "main"
    /\ file_idx = 0
    /\ open_handles = {}
    /\ document_title = <<>>
    /\ title_components = <<>>
    /\ doc_structure = NoStats
    /\ document_language = "unknown"
    /\ outline = <<>>
    /\ page_num = 0
    /\ result = ReturnValue(<<>>, <<>>)
    /\ outputs = [i \in DOMAIN pdf_files |-> <<>>]
    /\ status = -1
    /\ page_loads = 0
    /\ raised_in = {}
    /\ write_failed = {}
    /\ call = NoCall
    /\ ret = NoCall

doc == Docs[pdf_files[file_idx]]

\* lines 496-511: the directory checks
MainStart ==
    /\ pc = "main"
    /\ IF ~input_dir_exists \/ pdf_files = <<>>
       THEN /\ pc' = "exit"
            /\ status' = 1
            /\ UNCHANGED file_idx
       ELSE /\ pc' = "open"
            /\ file_idx' = 1
            /\ UNCHANGED status
    /\ UNCHANGED <<input_dir_exists, pdf_files, open_handles, locals, result,
                   outputs, page_loads, raised_in, write_failed, helper_vars>>

\* lines 517, 425-429: the call, and fitz.open
Open ==
    /\ pc = "open"
    /\ document_title' = <<>>
    /\ title_components' = <<>>
    /\ doc_structure' = NoStats
    /\ document_language' = "unknown"
    /\ outline' = <<>>
    /\ page_num' = 0
    /\ page_loads' = 0
    /\ IF doc.opens
       THEN /\ open_handles' = open_handles \cup {file_idx}
            /\ pc' = "title"
       ELSE /\ pc' = "except"
            /\ UNCHANGED open_handles
    /\ UNCHANGED <<input_dir_exists, pdf_files, file_idx, result, outputs,
                   status, raised_in, write_failed, helper_vars>>

\* line 431
Title ==
    /\ pc = "title"
    /\ LET r == extract_title_from_pdf(doc)
       IN  /\ page_loads' = page_loads + r.loads
           /\ IF r.raised
              THEN /\ pc' = "except"
                   /\ UNCHANGED <<document_title, title_components>>
              ELSE /\ pc' = "analyze"
                   /\ document_title' = r.title
                   /\ title_components' = r.components
    /\ UNCHANGED <<input_dir_exists, pdf_files, file_idx, open_handles,
                   doc_structure, document_language, outline, page_num, result,
                   outputs, status, raised_in, write_failed, helper_vars>>

\* lines 433-434
Analyze ==
    /\ pc = "analyze"
    /\ LET r == analyze_document_structure(doc)
       IN  /\ page_loads' = page_loads + r.loads
           /\ IF r.raised
              THEN /\ pc' = "except"
                   /\ UNCHANGED doc_structure
              ELSE /\ pc' = "sample"
                   /\ doc_structure' = r.stats
    /\ UNCHANGED <<input_dir_exists, pdf_files, file_idx, open_handles,
                   document_title, title_components, document_language, outline,
                   page_num, result, outputs, status, raised_in, write_failed, helper_vars>>

\* lines 436-445
Sample ==
    /\ pc = "sample"
    /\ LET r == SampleLanguage(doc)
       IN  /\ page_loads' = page_loads + r.loads
           /\ IF r.raised
              THEN /\ pc' = "except"
                   /\ UNCHANGED <<document_language, outline, page_num>>
              ELSE /\ pc' = "pages"
                   /\ document_language' = r.language
                   /\ outline' = <<>>
                   /\ page_num' = 1
    /\ UNCHANGED <<input_dir_exists, pdf_files, file_idx, open_handles,
                   document_title, title_components, doc_structure, result,
                   outputs, status, raised_in, write_failed, helper_vars>>

\* lines 447-481: one turn of the page loop
PageStep ==
    /\ pc = "pages"
    /\ page_num <= Min(MaxPages, doc.page_count)
    /\ page_loads' = page_loads + 1
    /\ IF PageOf(doc, page_num).load_ok
       THEN /\ outline' = outline \o
                    PageEntries(PageOf(doc, page_num), page_num, document_title,
                                title_components, doc_structure.body_size,
                                document_language, doc_structure)
            /\ page_num' = page_num + 1
            /\ UNCHANGED pc
       ELSE /\ pc' = "except"
            /\ UNCHANGED <<outline, page_num>>
    /\ UNCHANGED <<input_dir_exists, pdf_files, file_idx, open_handles,
                   document_title, title_components, doc_structure,
                   document_language, result, outputs, status, raised_in,
                   write_failed, helper_vars>>

\* lines 485-489: doc.close() and the return
Close ==
    /\ pc = "pages"
    /\ page_num > Min(MaxPages, doc.page_count)
    /\ open_handles' = open_handles \ {file_idx}
    /\ result' = ReturnValue(document_title, outline)
    /\ pc' = "returned"
    /\ UNCHANGED <<input_dir_exists, pdf_files, file_idx, locals, outputs,
                   status, page_loads, raised_in, write_failed, helper_vars>>

\* lines 491-493: the except clause
Except ==
    /\ pc = "except"
    /\ result' = ExceptValue(document_title, outline)
    /\ raised_in' = raised_in \cup {file_idx}
    /\ pc' = "returned"
    /\ UNCHANGED <<input_dir_exists, pdf_files, file_idx, open_handles, locals,
                   outputs, status, page_loads, write_failed, helper_vars>>

\* lines 519-529: the output file is written, or writing it raises and main
\* reports it; then the next file, or the return
WriteOutput ==
    /\ pc = "returned"
    /\ \E written \in BOOLEAN :
          IF written
          THEN /\ outputs' = [outputs EXCEPT ![file_idx] = Append(@, result)]
               /\ UNCHANGED write_failed
          ELSE /\ write_failed' = write_failed \cup {file_idx}
               /\ UNCHANGED outputs
    /\ IF file_idx < Len(pdf_files)
       THEN /\ file_idx' = file_idx + 1
            /\ pc' = "open"
            /\ UNCHANGED status
       ELSE /\ pc' = "exit"
            /\ status' = 0
            /\ UNCHANGED file_idx
    /\ UNCHANGED <<input_dir_exists, pdf_files, open_handles, locals, result,
                   page_loads, raised_in, helper_vars>>

Next ==
    \/ MainStart
    \/ Open
    \/ Title
    \/ Analyze
    \/ Sample
    \/ PageStep
    \/ Close
    \/ Except
    \/ WriteOutput

Spec == Init /\ [][Next]_vars

-----------------------------------------------------------------------------
(* Properties of the batch (specification Spec) *)

EmptyResult == [title |-> <<>>, outline |-> <<>>]

\* whether processing d raises somewhere outside extract_text_blocks: at
\* fitz.open, in the title extractor, in the analyzer, while the script is
\* sampled, or at a load_page of the page loop
Fails(d) ==
    \/ ~d.opens
    \/ extract_title_from_pdf(d).raised
    \/ analyze_document_structure(d).raised
    \/ SampleLanguage(d).raised
    \/ FirstLoadFailure(d, Min(MaxPages, d.page_count)) # 0

\* C1: a document whose opening or analysis fails yields exactly the empty
\* result and reaches the except clause instead of raising; main goes on to
\* the remaining files, writes one record per file (the empty one for the
\* failed file) unless writing the file itself fails, and returns 0.
C1_FailureIsolation ==
    /\ (pc = "returned" /\ Fails(doc)) =>
           (result = EmptyResult /\ file_idx \in raised_in)
    /\ pc = "exit" /\ input_dir_exists /\ pdf_files # <<>> =>
           /\ status = 0
           /\ file_idx = Len(pdf_files)
           /\ \A i \in DOMAIN pdf_files :
                 /\ i \notin write_failed => Len(outputs[i]) = 1
                 /\ i \in write_failed => outputs[i] = <<>>
                 /\ (Fails(Docs[pdf_files[i]]) /\ i \notin write_failed) =>
                        outputs[i] = <<EmptyResult>>

\* the batch scenario: a corrupt file first, a well-formed one after it
C1_Witness ==
    /\ pc = "exit" /\ status = 0 /\ Len(pdf_files) = 2
    /\ ~Docs[pdf_files[1]].opens
    /\ outputs[1] = <<EmptyResult>>
    /\ ~Fails(Docs[pdf_files[2]])
    /\ Len(outputs[2]) = 1 /\ outputs[2][1].title # <<>>
    /\ outputs[2][1].outline # <<>>

\* C2: once extract_outline_from_pdf has returned, the handle it opened is
\* closed.
C2_HandleReleased ==
    pc = "returned" => file_idx \notin open_handles

\* the exit paths on which it is: the normal return
C2_ClosedOnNormalReturn ==
    (pc = "returned" /\ file_idx \notin raised_in) => file_idx \notin open_handles

\* a page whose extraction fails, treated as a page without spans
AsNoSpans(page) ==
    IF page.load_ok /\ page.text_ok THEN page
    ELSE [page EXCEPT !.load_ok = TRUE, !.text_ok = TRUE, !.dict_ok = FALSE,
                      !.blocks = IF page.text_ok THEN @ ELSE <<>>]

Repaired(d) ==
    [d EXCEPT !.pages = [p \in DOMAIN d.pages |-> AsNoSpans(d.pages[p])],
              !.rest_page = AsNoSpans(d.rest_page)]

\* what extract_outline_from_pdf returns for a document none of whose calls
\* raises
Outcome(d) ==
    LET t == extract_title_from_pdf(d)
        s == analyze_document_structure(d).stats
        language == SampleLanguage(d).language
    IN  [title |-> t.title,
         outline |->
            Flatten([p \in 1 .. Min(MaxPages, d.page_count) |->
                PageEntries(PageOf(d, p), p, t.title, t.components,
                            s.body_size, language, s)])]

\* C3: a page on which load_page, get_text or the block dictionary fails
\* counts as a page without spans: the document's title and the headings of
\* its other pages are returned.
C3_PageFailureLocal ==
    (pc = "returned" /\ doc.opens /\ doc.meta_ok) =>
        result = Outcome(Repaired(doc))

\* the part of C3 the code has: a failure of get_text("dict")
C3_DictFailureLocal ==
    (pc = "returned" /\ doc.opens /\ doc.meta_ok /\ ~Fails(doc)) =>
        result = Outcome(Repaired(doc))

C3_DictFailureWitness ==
    /\ pc = "returned"
    /\ \E p \in DOMAIN doc.pages : ~doc.pages[p].dict_ok
    /\ result.outline # <<>>

-----------------------------------------------------------------------------
(* group_text_spans applied alone (specification SpecGroup) *)

MaxSpans == 3

\* y positions 5 and 6 apart, x positions that leave gaps of 20 and 21
\* after a span 10 wide
SpanYs == {0, 5, 10, 16}
SpanXs == {0, 30, 61}

SpanChoices ==
    {[text |-> <<"a","b","c">>, x_pos |-> x, y_pos |-> y, font_size |-> 10 + y,
      is_bold |-> (x = 30), bbox |-> <<x, y, x + 10, y + 10>>] :
        x \in SpanXs, y \in SpanYs}

SpanInputs == UNION {[1 .. n -> SpanChoices] : n \in 0 .. MaxSpans}

InitGroup ==
    /\ MainIdle
    /\ call \in {[fn |-> "group_text_spans", text_spans |-> s] : s \in SpanInputs}
    /\ ret = NoCall

GroupSpans ==
    /\ call.fn = "group_text_spans"
    /\ ret = NoCall
    /\ ret' = [fn |-> "group_text_spans",
               groups |-> SpanGroups(call.text_spans),
               merged |-> group_text_spans(call.text_spans)]
    /\ UNCHANGED <<main_vars, call>>

NextGroup == GroupSpans

SpecGroup == InitGroup /\ [][NextGroup]_vars

Grouped == ret.fn = "group_text_spans"

\* the group (its position in ret.groups) that holds input span i
GroupOf(i) ==
    CHOOSE g \in DOMAIN ret.groups :
        \E m \in DOMAIN ret.groups[g] : ret.groups[g][m] = i

Abs(v) == IF v < 0 THEN -v ELSE v

\* C4, as claimed: any two input spans no more than 5 apart in y with a
\* horizontal gap of at most 20 share a group, and any two more than 5 apart
\* in y never do.
C4_GroupingOfAnyPair ==
    Grouped =>
        \A i, j \in DOMAIN call.text_spans :
            LET a == call.text_spans[i]
                b == call.text_spans[j]
            IN  i # j =>
                  /\ (Abs(a.y_pos - b.y_pos) <= 5 /\ b.x_pos - a.bbox[3] <= 20)
                         => GroupOf(i) = GroupOf(j)
                  /\ Abs(a.y_pos - b.y_pos) > 5 => GroupOf(i) # GroupOf(j)

\* C4, amended: the groups partition the input; two spans that are neighbours
\* in (y, x) order share a group iff they are no more than 5 apart in y and
\* the later one starts no more than 20 right of the earlier one's right
\* edge; a group is a run of that order, and its merged block carries the
\* members' texts joined by spaces in that order.
C4_GroupingOfNeighbours ==
    Grouped =>
        LET spans == call.text_spans
            order == SortedOrder(spans)
        IN  /\ Len(ret.merged) = Len(ret.groups)
            /\ Flatten(ret.groups) = order
            /\ \A g \in DOMAIN ret.groups : ret.groups[g] # <<>>
            /\ \A k \in 1 .. Len(order) - 1 :
                  LET a == spans[order[k]]
                      b == spans[order[k + 1]]
                  IN  /\ a.y_pos <= b.y_pos
                      /\ (GroupOf(order[k]) = GroupOf(order[k + 1])) <=>
                             (b.y_pos - a.y_pos <= 5 /\ b.x_pos - a.bbox[3] <= 20)
            /\ \A g \in DOMAIN ret.groups :
                  ret.merged[g].text =
                      join([m \in DOMAIN ret.groups[g] |->
                                spans[ret.groups[g][m]].text])

\* three spans 5 apart in y chained into one group, the outer two 10 apart
C4_Witness ==
    /\ Grouped
    /\ Len(call.text_spans) = 3
    /\ Len(ret.groups) = 1
    /\ \E i, j \in DOMAIN call.text_spans :
          call.text_spans[j].y_pos - call.text_spans[i].y_pos > 5

-----------------------------------------------------------------------------
(* normalize_text applied alone, twice (specification SpecNormalize) *)

MaxLen == 3

\* a letter, two kinds of whitespace, a base character and the combining
\* mark that composes with it, and two directional controls
NormChars == {"a", " ", "\n", "ALEF", "MADDAH", "LRM", "RLE"}
Languages == {"arabic", "hebrew", "latin", "unknown"}

NormInputs == UNION {[1 .. n -> NormChars] : n \in 0 .. MaxLen}

InitNormalize ==
    /\ MainIdle
    /\ call \in {[fn |-> "normalize_text", text |-> s, language |-> l] :
                    s \in NormInputs, l \in Languages}
    /\ ret = NoCall

NormalizeOnce ==
    /\ call.fn = "normalize_text"
    /\ ret = NoCall
    /\ ret' = [fn |-> "normalize_text", times |-> 1,
               once |-> normalize_text(call.text, call.language),
               twice |-> <<>>]
    /\ UNCHANGED <<main_vars, call>>

NormalizeAgain ==
    /\ call.fn = "normalize_text"
    /\ ret.fn = "normalize_text"
    /\ ret.times = 1
    /\ ret' = [ret EXCEPT !.times = 2,
                          !.twice = normalize_text(ret.once, call.language)]
    /\ UNCHANGED <<main_vars, call>>

NextNormalize == NormalizeOnce \/ NormalizeAgain

SpecNormalize == InitNormalize /\ [][NextNormalize]_vars

NormalizedTwice == ret.fn = "normalize_text" /\ ret.times = 2

\* C8: normalize_text(normalize_text(s, L), L) = normalize_text(s, L) for
\* every string s and every script mode L.
C8_Idempotent ==
    NormalizedTwice => ret.twice = ret.once

\* where it is idempotent: the modes that strip no directional control
C8_IdempotentWithoutStripping ==
    (NormalizedTwice /\ call.language \in {"latin", "unknown"}) =>
        ret.twice = ret.once

\* a directional control between whitespace runs leaves no double space
C8_ControlBetweenSpacesWitness ==
    /\ NormalizedTwice
    /\ call.language = "arabic"
    /\ call.text = <<" ", "LRM", " ">>
    /\ ret.twice = ret.once

-----------------------------------------------------------------------------
(* is_valid_heading and classify_heading_level applied alone to one line    *)
(* (specification SpecHeading)                                              *)

\* '123 Main Street'
T_street ==
    <<"1","2","3"," ","M","a","i","n"," ","S","t","r","e","e","t">>
\* '(555) 123-4567'
T_phone ==
    <<"(","5","5","5",")"," ","1","2","3","-","4","5","6","7">>
\* 'Table 2'
T_table == <<"T","a","b","l","e"," ","2">>
\* 'Round 2 Results'
T_round_results ==
    <<"R","o","u","n","d"," ","2"," ","R","e","s","u","l","t","s">>
\* 'section 3'
T_section == <<"s","e","c","t","i","o","n"," ","3">>
\* '10.2 Methods'
T_methods == <<"1","0",".","2"," ","M","e","t","h","o","d","s">>
\* 'Results'
T_results == <<"R","e","s","u","l","t","s">>

HeadingTexts ==
    {T_chapter, T_sub, T_subsub, T_street, T_phone, T_page, T_table,
     T_round_results, T_section, T_methods, T_overview, T_results, T_body,
     T_round}

FontSizes == {6, 10, 11, 12, 13, 14, 16, 18, 24}
BodySizes == {0, 10, 12}

\* None, the analyzer's defaults, adaptive thresholds 2.16 and 1.35, and a
\* dict without the threshold keys
StatsChoices ==
    {NoStats, DefaultStats,
     [present |-> TRUE, body_size |-> 10,
      large_font_threshold |-> <<216, 100>>,
      medium_font_threshold |-> <<135, 100>>],
     [present |-> TRUE, body_size |-> 12,
      large_font_threshold |-> <<>>, medium_font_threshold |-> <<>>]}

InitHeading ==
    /\ MainIdle
    /\ call \in {[fn |-> "heading", text |-> t, font_size |-> s, is_bold |-> b,
                  body_size |-> body, language |-> "latin",
                  document_stats |-> st] :
                    t \in HeadingTexts, s \in FontSizes, b \in BOOLEAN,
                    body \in BodySizes, st \in StatsChoices}
    /\ ret = NoCall

\* the scores is_valid_heading adds up, had no filter returned before
heading_score(text, font_size, is_bold, body_size, language, document_stats) ==
    content_score(text, language)
    + font_score(font_size, is_bold, body_size, document_stats)

Validate ==
    /\ call.fn = "heading"
    /\ ret = NoCall
    /\ ret' = [fn |-> "heading", classified |-> FALSE, level |-> "",
               valid |-> is_valid_heading(call.text, call.font_size,
                             call.is_bold, call.body_size, call.language,
                             call.document_stats)]
    /\ UNCHANGED <<main_vars, call>>

Classify ==
    /\ call.fn = "heading"
    /\ ret.fn = "heading"
    /\ ~ret.classified
    /\ ret' = [ret EXCEPT !.classified = TRUE,
                          !.level = classify_heading_level(call.text,
                                        call.font_size, call.is_bold,
                                        call.body_size, call.document_stats)]
    /\ UNCHANGED <<main_vars, call>>

NextHeading == Validate \/ Classify

SpecHeading == InitHeading /\ [][NextHeading]_vars

Validated == ret.fn = "heading"
Classified == ret.fn = "heading" /\ ret.classified

LevelRank(level) ==
    CASE level = "H1" -> 3 [] level = "H2" -> 2 [] level = "H3" -> 1

\* C5: at every larger font size, everything else the same, the score
\* content_score + font_score is at least as high, an accepted line is still
\* accepted, and the level is at least as high (H1 above H2 above H3).
C5_FontSizeMonotone ==
    \A s2 \in FontSizes :
        s2 >= call.font_size =>
            /\ Validated =>
                  /\ heading_score(call.text, s2, call.is_bold, call.body_size,
                                   call.language, call.document_stats)
                     >= heading_score(call.text, call.font_size, call.is_bold,
                                      call.body_size, call.language,
                                      call.document_stats)
                  /\ ret.valid =>
                        is_valid_heading(call.text, s2, call.is_bold,
                                         call.body_size, call.language,
                                         call.document_stats)
            /\ Classified =>
                  LevelRank(classify_heading_level(call.text, s2, call.is_bold,
                                call.body_size, call.document_stats))
                  >= LevelRank(ret.level)

\* a line that a larger font lifts from rejected to accepted and from H3 to H1
C5_Witness ==
    /\ Classified
    /\ ~ret.valid
    /\ ret.level = "H3"
    /\ \E s2 \in FontSizes :
          /\ s2 > call.font_size
          /\ is_valid_heading(call.text, s2, call.is_bold, call.body_size,
                              call.language, call.document_stats)
          /\ classify_heading_level(call.text, s2, call.is_bold, call.body_size,
                                    call.document_stats) = "H1"

\* C9: whatever the font size, the bold flag, the body size and the
\* statistics, is_valid_heading rejects a text an exclusion pattern matches,
\* and rejects "123 Main Street", "(555) 123-4567", "Page 3" and "Table 2".
C9_ExclusionsOverrideTypography ==
    Validated =>
        /\ matches_exclusion(call.text) => ~ret.valid
        /\ call.text \in {T_street, T_phone, T_page, T_table} => ~ret.valid

\* an excluded line whose scores alone would have passed
C9_Witness ==
    /\ Validated
    /\ call.text = T_table
    /\ ~ret.valid
    /\ heading_score(call.text, call.font_size, call.is_bold, call.body_size,
                     call.language, call.document_stats)
       >= required_score(call.text)

\* the form "Chapter/Section/Part/Round N ...", any case of the letters
IsChapterForm(text) ==
    \E w \in {<<"c","h","a","p","t","e","r">>, <<"s","e","c","t","i","o","n">>,
              <<"p","a","r","t">>, <<"r","o","u","n","d">>} :
        /\ Len(text) >= Len(w) + 2
        /\ lower(SubSeq(text, 1, Len(w))) = w
        /\ text[Len(w) + 1] \in Space
        /\ \E d \in Len(w) + 2 .. Len(text) :
              /\ text[d] \in Digit
              /\ \A i \in Len(w) + 1 .. d - 1 : text[i] \in Space

\* the end of the run of digits that starts at position i, i - 1 when none
DigitsEnd(text, i) ==
    LET stops == {j \in i .. Len(text) + 1 :
                     j = Len(text) + 1 \/ text[j] \notin Digit}
    IN  (CHOOSE j \in stops : \A k \in stops : j <= k) - 1

\* the position after "N.N" or "N.N.N" (dots given), 0 when text does not
\* start that way
AfterNumber(text, dots) ==
    LET e1 == DigitsEnd(text, 1)
        e2 == DigitsEnd(text, e1 + 2)
        e3 == DigitsEnd(text, e2 + 2)
        dot(i) == i <= Len(text) /\ text[i] = "."
    IN  IF e1 < 1 \/ ~dot(e1 + 1) \/ e2 < e1 + 2 THEN 0
        ELSE IF dots = 1 THEN e2 + 1
        ELSE IF ~dot(e2 + 1) \/ e3 < e2 + 2 THEN 0
        ELSE e3 + 1

\* the position of the first character after the whitespace from i on
AfterSpace(text, i) ==
    LET stops == {j \in i .. Len(text) + 1 :
                     j = Len(text) + 1 \/ text[j] \notin Space}
    IN  CHOOSE j \in stops : \A k \in stops : j <= k

\* the form "N.N CapitalLetter..."
IsSubsectionForm(text) ==
    LET i == AfterNumber(text, 1)
    IN  /\ i > 0 /\ i <= Len(text) /\ text[i] \in Space
        /\ AfterSpace(text, i) <= Len(text)
        /\ text[AfterSpace(text, i)] \in Upper

\* the form "N.N.N ..."
IsSubsubsectionForm(text) ==
    LET i == AfterNumber(text, 2)
    IN  i > 0 /\ i <= Len(text) /\ text[i] \in Space

\* C10: whatever the typography, a "Chapter/Section/Part/Round N" line is
\* H1, an "N.N Capital..." line H2 and an "N.N.N ..." line H3 ("Chapter 1
\* Introduction", "2.1 Background", "2.1.3 Setup"), and a line gets its level
\* from the font only when no lexical pattern matches it.
C10_PatternFirst ==
    Classified =>
        /\ IsChapterForm(call.text) => ret.level = "H1"
        /\ IsSubsectionForm(call.text) => ret.level = "H2"
        /\ IsSubsubsectionForm(call.text) => ret.level = "H3"
        /\ call.text = T_chapter => ret.level = "H1"
        /\ call.text = T_sub => ret.level = "H2"
        /\ call.text = T_subsub => ret.level = "H3"
        /\ lexical_branch(call.text) # "none" =>
              \A s \in FontSizes, b \in BOOLEAN :
                  classify_heading_level(call.text, s, b, call.body_size,
                                         call.document_stats) = ret.level
        /\ (lexical_branch(call.text) = "none") <=>
              ~(\/ IsChapterForm(call.text)
                \/ re_match(re_numbered_item, call.text)
                \/ IsSubsectionForm(call.text)
                \/ IsSubsubsectionForm(call.text))

\* "2.1 Background" in a small regular font, which the font alone makes H3
C10_Witness ==
    /\ Classified
    /\ call.text = T_sub
    /\ ret.level = "H2"
    /\ font_level(call.font_size, call.is_bold, call.body_size,
                  call.document_stats) = "H3"

-----------------------------------------------------------------------------
(* extract_title_from_pdf applied alone (specification SpecTitle) *)

\* 'abc', 'abcd', four blanks
T_abc == <<"a","b","c">>
T_abcd == <<"a","b","c","d">>
T_blanks == <<" "," "," "," ">>

MetaTitles ==
    {<<>>, T_abc, T_abcd, T_annual, T_annual_padded, T_abc_padded, T_blanks}

TitlePages == {CoverPage, InnerPage, CoverPageLoadFails, EmptyPage}

\* documents of 0, 1 and 2 pages
TitleDocs ==
    {[opens |-> TRUE, meta_ok |-> TRUE, meta_title |-> m,
      page_count |-> Len(ps), pages |-> ps, rest_page |-> EmptyPage] :
        m \in MetaTitles,
        ps \in {<<>>} \cup {<<p>> : p \in TitlePages}
               \cup {<<p, q>> : p \in TitlePages, q \in TitlePages}}

InitTitle ==
    /\ MainIdle
    /\ call \in {[fn |-> "extract_title_from_pdf", doc |-> d] : d \in TitleDocs}
    /\ ret = NoCall

ExtractTitle ==
    /\ call.fn = "extract_title_from_pdf"
    /\ ret = NoCall
    /\ ret' = [fn |-> "extract_title_from_pdf",
               value |-> extract_title_from_pdf(call.doc)]
    /\ UNCHANGED <<main_vars, call>>

NextTitle == ExtractTitle

SpecTitle == InitTitle /\ [][NextTitle]_vars

TitleExtracted == ret.fn = "extract_title_from_pdf"

\* C6, as claimed: whatever the page count and the pages, a metadata title
\* of more than 3 characters (the whitespace around it aside) is returned as
\* the title and the sole component, and no page is loaded.
C6_MetadataTitleAnyDocument ==
    (/\ TitleExtracted
     /\ call.doc.meta_ok
     /\ Len(strip(call.doc.meta_title)) > 3) =>
        /\ ~ret.value.raised
        /\ ret.value.title = strip(call.doc.meta_title)
        /\ ret.value.components = <<strip(call.doc.meta_title)>>
        /\ ret.value.loads = 0

\* C6, amended: for a document of at least one page whose metadata title,
\* with the whitespace around it stripped, has more than 3 characters, the
\* stripped title is returned as the title and the sole component, and no
\* page is loaded.
C6_MetadataTitle ==
    (/\ TitleExtracted
     /\ call.doc.page_count >= 1
     /\ Len(strip(call.doc.meta_title)) > 3) =>
        /\ ~ret.value.raised
        /\ ret.value.title = strip(call.doc.meta_title)
        /\ ret.value.components = <<strip(call.doc.meta_title)>>
        /\ ret.value.loads = 0

\* "Annual Report 2023" on a document whose first page cannot be loaded
C6_Witness ==
    /\ TitleExtracted
    /\ call.doc.meta_title = T_annual
    /\ call.doc.page_count = 2
    /\ ~call.doc.pages[1].load_ok
    /\ ret.value.title = T_annual
    /\ ret.value.loads = 0

-----------------------------------------------------------------------------
(* is_text_part_of_title applied alone, on arguments of the kind line 471   *)
(* passes: the stripped, non-empty text of a line (lines 466-469) and the   *)
(* title with the components extract_title_from_pdf returned with it, none  *)
(* for the empty title and the title itself otherwise (lines 60, 65, 127,   *)
(* 129) (specification SpecMember)                                          *)

\* 'The Connecting Dots Challenge: Round 2 and 3'
MemberBase ==
    T_title \o <<":"," ","R","o","u","n","d"," ","2"," ","a","n","d"," ","3">>

\* the text in capitals with every blank widened to a blank and a tab
Loosen(s) ==
    Flatten([i \in DOMAIN s |->
        IF s[i] = " " THEN <<" ", "\t">> ELSE <<ToUpper(s[i])>>])

MemberTitles ==
    LET plain == {strip(SubSeq(MemberBase, 1, n)) : n \in 0 .. Len(MemberBase)}
    IN  plain \cup {Loosen(T_title)}

MemberTexts ==
    LET plain == {strip(SubSeq(MemberBase, i, j)) :
                     i \in {1, 5, 16}, j \in 1 .. Len(MemberBase)}
    IN  (plain \cup {Loosen(s) : s \in plain} \cup {T_round}) \ {<<>>}

InitMember ==
    /\ MainIdle
    /\ call \in {[fn |-> "is_text_part_of_title", text |-> t, title |-> ti,
                  title_components |-> IF ti = <<>> THEN <<>> ELSE <<ti>>] :
                    t \in MemberTexts, ti \in MemberTitles}
    /\ ret = NoCall

TestMembership ==
    /\ call.fn = "is_text_part_of_title"
    /\ ret = NoCall
    /\ ret' = [fn |-> "is_text_part_of_title",
               value |-> is_text_part_of_title(call.text, call.title,
                                               call.title_components)]
    /\ UNCHANGED <<main_vars, call>>

NextMember == TestMembership

SpecMember == InitMember /\ [][NextMember]_vars

MembershipTested == ret.fn = "is_text_part_of_title"

\* one side of the comparison: lowercased, whitespace runs collapsed
Folded(s) == collapse_ws(lower(strip(s)))

\* a occurs in b as a run of consecutive characters
OccursIn(a, b) ==
    \E k \in 0 .. Len(b) - Len(a) : SubSeq(b, k + 1, k + Len(a)) = a

\* C7: with both sides lowercased and whitespace-collapsed, the test is true
\* exactly when the text equals the title, or equals a component, or has at
\* least 8 characters and either lies inside the title covering at least 40%
\* of it or contains the title, which covers at least 60% of the text; the
\* title 'The Connecting Dots Challenge' suppresses the line that repeats it
\* and does not suppress 'Connecting the Dots: Round 2'
C7_TitleMembership ==
    MembershipTested =>
        LET text == Folded(call.text)
            title == Folded(call.title)
            comps == {Folded(call.title_components[c]) :
                         c \in DOMAIN call.title_components}
            claimed ==
                \/ text = title
                \/ text \in comps
                \/ /\ Len(text) >= 8
                   /\ OccursIn(text, title)
                   /\ 100 * Len(text) >= 40 * Len(title)
                \/ /\ Len(text) >= 8
                   /\ OccursIn(title, text)
                   /\ 100 * Len(title) >= 60 * Len(text)
        IN  /\ ret.value <=> claimed
            /\ (call.title = T_title /\ call.text = T_title) => ret.value
            /\ (call.title = T_title /\ call.text = T_round) => ~ret.value

\* C7 witness: under the title 'The Connecting Dots Challenge' a line that
\* is not the title, a fragment of it or an extension of it, has been found
\* to be part of the title by the partial-match clauses
C7_Witness ==
    /\ MembershipTested
    /\ call.title = T_title
    /\ Len(Folded(call.text)) >= 8
    /\ Folded(call.text) # Folded(call.title)
    /\ ret.value

-----------------------------------------------------------------------------
(* The outline during and after the page loop (specification Spec) *)

\* a is b with elements left out, the order kept
RECURSIVE IsSubsequence(_, _)
IsSubsequence(a, b) ==
    IF a = <<>> THEN TRUE
    ELSE IF b = <<>> THEN FALSE
    ELSE IF Head(a) = Head(b) THEN IsSubsequence(Tail(a), Tail(b))
    ELSE IsSubsequence(a, Tail(b))

\* the texts of the physical lines of page p of the document, top to bottom,
\* as an outline entry would carry them
PageLineTexts(p) ==
    LET lines == BlockLines(PageOf(doc, p).blocks)
    IN  [l \in DOMAIN lines |->
            normalize_text(LineText(lines[l]).text, document_language)]

\* the texts of the entries of o that carry page p, in the order of o
EntryTextsOfPage(o, p) ==
    LET es == SelectSeq(o, LAMBDA e : e.page = p)
    IN  [k \in DOMAIN es |-> es[k].text]

\* the entries of o carry pages of 1 .. done, never decreasing, and levels
\* H1 .. H3
PagesInOrder(o, done) ==
    /\ done <= Min(50, doc.page_count)
    /\ \A k \in DOMAIN o :
          /\ o[k].page \in 1 .. done
          /\ o[k].level \in {"H1", "H2", "H3"}
    /\ \A k \in 1 .. Len(o) - 1 : o[k].page <= o[k + 1].page

\* the entries of o that carry page p are lines of page p, in line order
InLineOrder(o, p) ==
    IsSubsequence(EntryTextsOfPage(o, p), PageLineTexts(p))

\* o is an outline of the pages 1 .. done of the document
OutlineOfPages(o, done) ==
    /\ PagesInOrder(o, done)
    /\ \A p \in 1 .. done : InLineOrder(o, p)

\* between two points of the page loop the outline grows at its end only, by
\* entries of the page just processed
OutlineGrows ==
    (pc = "pages" /\ pc' = "pages") =>
        /\ Len(outline') >= Len(outline)
        /\ SubSeq(outline', 1, Len(outline)) = outline
        /\ \A k \in Len(outline) + 1 .. Len(outline') :
              outline'[k].page = page_num
        /\ page_num \in 1 .. Min(50, doc.page_count)
        /\ page_num' = page_num + 1

\* C11: at every point of the page loop the outline only grows by appending
\* (nothing is removed, reordered or deduplicated); every entry's page is in
\* 1 .. min(50, page_count) and is the 1-indexed page of the line it came
\* from; pages never decrease along the outline; the entries of one page are
\* in the order of its lines; every level is H1, H2 or H3; and the outline
\* returned is the outline the loop ended with.
C11_OutlineOrdering ==
    /\ [](pc = "pages" =>
             /\ PagesInOrder(outline, page_num - 1)
             /\ page_num > 1 => InLineOrder(outline, page_num - 1))
    /\ []((pc = "returned" /\ file_idx \notin raised_in) =>
             /\ result.outline = outline
             /\ OutlineOfPages(result.outline, Min(50, doc.page_count)))
    /\ [][OutlineGrows]_vars

\* C11 witness: a document of 51 pages has been returned with an outline
\* that ends on page 50 and keeps the same heading, at the same level, for
\* more than one page it is on
C11_Witness ==
    /\ pc = "returned"
    /\ file_idx \notin raised_in
    /\ doc.page_count = 51
    /\ result.outline # <<>>
    /\ result.outline[Len(result.outline)].page = 50
    /\ \E j, k \in DOMAIN result.outline :
          /\ j < k
          /\ result.outline[j].text = result.outline[k].text
          /\ result.outline[j].level = result.outline[k].level
          /\ result.outline[j].page < result.outline[k].page

=============================================================================
